---- MODULE Spec2Model ----
(***************************************************************************)
(* Model of the rell deploy command (package main of node.go): the         *)
(* DeployTag workflow over a container runtime, the nginx configuration    *)
(* directory and the last-deployed-tag file.                               *)
(*                                                                         *)
(* Strings are sequences of one-character strings, so that prefix tests    *)
(* and slicing are computed as the Go code computes them.                  *)
(*                                                                         *)
(* A tag is any non-empty string the caller supplies.  The tag "prod" is   *)
(* among the modelled tags because the upstream file of its container,     *)
(* rell-prod.conf, is prodNginxConfFile itself.                            *)
(***************************************************************************)
EXTENDS Integers, Sequences, FiniteSets, TLC

(* ------------------------------ bounds -------------------------------- *)

\* number of DeployTag invocations made on the Deploy value
MaxDeploys == 2

\* the readiness window, counted in sleep intervals (the source's window is
\* time.Minute, 2400 intervals of 25ms)
WindowTicks == 2

\* the longest a single http.Head may take, in sleep intervals
MaxPollTicks == 1

(* ----------------------------- constants ------------------------------ *)

infoCheckMaxWait == WindowTicks

infoCheckSleep == 1

rellContainerNamePrefix == <<"r", "e", "l", "l", "-">>

redisContainerName == <<"r", "e", "d", "i", "s">>

redisImage == <<"d", "a", "a", "k", "u", "/", "r", "e", "d", "i", "s">>

rellImage == <<"d", "a", "a", "k", "u", "/", "r", "e", "l", "l">>

nginxConfDir == <<"/etc/nginx/server", "/">>

prodNginxConfFile ==
    <<"r", "e", "l", "l", "-", "p", "r", "o", "d", ".", "c", "o", "n", "f">>

lastDeployTagFile == <<"/var/lib/rell", "/", "production-tag">>

\* the release tags that are deployed
Tags == {<<"a">>, <<"b">>, <<"p", "r", "o", "d">>}

Procs == {1, 2}

(* ------------------------------ strings ------------------------------- *)

HasPrefix(s, prefix) ==
    /\ Len(s) >= Len(prefix)
    /\ SubSeq(s, 1, Len(prefix)) = prefix

\* s[n:] of Go, n counted from 0
SliceFrom(s, n) == SubSeq(s, n + 1, Len(s))

containerNameForTag(t) == rellContainerNamePrefix \o t

containerNginxConfPath(containerName) ==
    nginxConfDir \o containerName \o <<".", "c", "o", "n", "f">>

prodNginxConfPath == nginxConfDir \o prodNginxConfFile

RECURSIVE tagFromNamesFrom(_, _)
tagFromNamesFrom(names, i) ==
    IF i > Len(names) THEN <<>>
    ELSE LET name == SliceFrom(names[i], 1)
         IN  IF HasPrefix(name, rellContainerNamePrefix)
             THEN SliceFrom(name, Len(rellContainerNamePrefix))
             ELSE tagFromNamesFrom(names, i + 1)

\* tagFromNames without name[1:]: the leading / stays on the name
RECURSIVE tagFromNamesKeepSlashFrom(_, _)
tagFromNamesKeepSlashFrom(names, i) ==
    IF i > Len(names) THEN <<>>
    ELSE LET name == names[i]
         IN  IF HasPrefix(name, rellContainerNamePrefix)
             THEN SliceFrom(name, Len(rellContainerNamePrefix))
             ELSE tagFromNamesKeepSlashFrom(names, i + 1)

tagFromNames_KeepSlash(names) == tagFromNamesKeepSlashFrom(names, 1)

tagFromNames(names) == tagFromNamesFrom(names, 1)

\* the image reference fmt.Sprintf("%s:%s", rellImage, tag)
rellImageForTag(t) == rellImage \o <<":">> \o t

(* ------------------------------- errors ------------------------------- *)

\* an error value: the failed operation, the container it was about and,
\* for a multiError, its parts
Err(op, id) == [op |-> op, id |-> id, parts |-> <<>>, wrapped |-> FALSE]

Nil == Err("nil", 0)

ErrNotFound == Err("ErrNotFound", 0)

\* stackerr.Wrap: nil stays nil, an error keeps its kind and gains a stack
Wrap(e) == IF e = Nil THEN Nil ELSE [e EXCEPT !.wrapped = TRUE]

\* multiError: a slice of errors that is itself an error
multiError(errs) ==
    [op |-> "multiple errors", id |-> 0, parts |-> errs, wrapped |-> FALSE]

(* ------------------------- container runtime -------------------------- *)

\* one entry of the record of runtime calls a step has issued
Call(op, name, id, res) == [op |-> op, name |-> name, id |-> id, res |-> res]

Named(cs, name) ==
    {c \in cs : \E i \in 1..Len(c.Names) : c.Names[i] = <<"/">> \o name}

\* docker building the client anew when the earlier construction failed
docker_Retry(w, f) ==
    LET cl == IF w.client \in {"unset", "err"}
              THEN (IF f = "client" THEN "err" ELSE "ok")
              ELSE w.client
    IN  [w   |-> [w EXCEPT !.client = cl],
         err |-> IF cl = "err" THEN Wrap(Err("NewDockerClient", 0)) ELSE Nil]

\* Deploy.docker: the client is built by the first call and memoized,
\* the error of a failed construction included
docker(w, f) ==
    LET cl == IF w.client = "unset"
              THEN (IF f = "client" THEN "err" ELSE "ok")
              ELSE w.client
    IN  [w   |-> [w EXCEPT !.client = cl],
         err |-> IF cl = "err" THEN Wrap(Err("NewDockerClient", 0)) ELSE Nil]

\* InspectContainer(name): the container found, ErrNotFound, or another error
InspectContainer(w, name, f) ==
    IF f = "inspect" THEN [err |-> Err("InspectContainer", 0), ci |-> {}]
    ELSE IF Named(w.cs, name) = {} THEN [err |-> ErrNotFound, ci |-> {}]
    ELSE [err |-> Nil, ci |-> {CHOOSE c \in Named(w.cs, name) : TRUE}]

InspectCall(name, r) ==
    Call("InspectContainer", name,
         IF r.ci = {} THEN 0 ELSE (CHOOSE c \in r.ci : TRUE).Id,
         IF r.err # Nil THEN r.err.op
         ELSE IF (CHOOSE c \in r.ci : TRUE).Running THEN "running"
         ELSE "stopped")

\* RemoveContainer by name: the runtime refuses to remove a running container
RemoveByName(w, name, fail) ==
    LET found == Named(w.cs, name)
        bad   == fail \/ found = {} \/ \E c \in found : c.Running
    IN  [w   |-> IF bad THEN w ELSE [w EXCEPT !.cs = @ \ found],
         err |-> IF bad THEN Err("RemoveContainer", 0) ELSE Nil]

\* CreateContainer: a fresh, not yet running container under the name; the
\* runtime refuses a name that is in use
CreateContainer(w, image, name, fail) ==
    LET bad == fail \/ Named(w.cs, name) # {}
        c   == [Id |-> w.nextId, Names |-> << <<"/">> \o name >>,
                Image |-> image, Running |-> FALSE, Ip |-> 0]
    IN  [w   |-> IF bad THEN w
                 ELSE [w EXCEPT !.cs = @ \cup {c}, !.nextId = @ + 1],
         id  |-> IF bad THEN 0 ELSE w.nextId,
         err |-> IF bad THEN Err("CreateContainer", 0) ELSE Nil]

\* StartContainer: the container runs and has a network address of its own
StartContainer(w, id, fail) ==
    LET bad == fail \/ ~\E c \in w.cs : c.Id = id
    IN  [w   |-> IF bad THEN w
                 ELSE [w EXCEPT !.cs =
                         {IF c.Id = id
                          THEN [c EXCEPT !.Running = TRUE, !.Ip = id]
                          ELSE c : c \in @}],
         err |-> IF bad THEN Err("StartContainer", id) ELSE Nil]

\* what a step hands back: the world it leaves, its error, the calls it made
Ret(w, err, calls) == [w |-> w, err |-> err, calls |-> calls]

(* ------------------------------ the steps ----------------------------- *)

StartRedisFailures == {"none", "client", "inspect", "remove", "create", "start"}

\* startRedis starting the container it found stopped
startRedis_RestartInPlace(w0, f) ==
    LET d    == docker(w0, f)
        w    == d.w
        insp == InspectContainer(w, redisContainerName, f)
        c1   == <<InspectCall(redisContainerName, insp)>>
    IN
    IF d.err # Nil THEN Ret(w, d.err, <<>>)
    ELSE IF insp.err = Nil /\ (CHOOSE c \in insp.ci : TRUE).Running
    THEN Ret(w, Nil, c1)
    ELSE IF insp.err # Nil /\ insp.err # ErrNotFound
    THEN Ret(w, Wrap(insp.err), c1)
    ELSE
    LET rm == [w |-> w, err |-> Nil]
        c2 == c1
        re == StartContainer(w, (CHOOSE c \in insp.ci : TRUE).Id, f = "start")
    IN
    IF insp.err = Nil
    THEN Ret(re.w, Wrap(re.err),
             c1 \o <<Call("StartContainer", <<>>,
                          (CHOOSE c \in insp.ci : TRUE).Id, re.err.op)>>)
    ELSE
    LET cr == CreateContainer(rm.w, redisImage, redisContainerName, f = "create")
        c3 == c2 \o <<Call("CreateContainer", redisContainerName, cr.id, cr.err.op)>>
    IN
    IF cr.err # Nil THEN Ret(cr.w, Wrap(cr.err), c3)
    ELSE
    LET st == StartContainer(cr.w, cr.id, f = "start")
        c4 == c3 \o <<Call("StartContainer", <<>>, cr.id, st.err.op)>>
    IN
    IF st.err # Nil THEN Ret(st.w, Wrap(st.err), c4)
    ELSE Ret(st.w, Nil, c4)

startRedis(w0, f) ==
    LET d    == docker(w0, f)
        w    == d.w
        insp == InspectContainer(w, redisContainerName, f)
        c1   == <<InspectCall(redisContainerName, insp)>>
    IN
    IF d.err # Nil THEN Ret(w, d.err, <<>>)
    ELSE IF insp.err = Nil /\ (CHOOSE c \in insp.ci : TRUE).Running
    THEN Ret(w, Nil, c1)
    ELSE IF insp.err # Nil /\ insp.err # ErrNotFound
    THEN Ret(w, Wrap(insp.err), c1)
    ELSE
    LET rm == IF insp.err = Nil
              THEN RemoveByName(w, redisContainerName, f = "remove")
              ELSE [w |-> w, err |-> Nil]
        c2 == IF insp.err = Nil
              THEN c1 \o <<Call("RemoveContainer", redisContainerName,
                                (CHOOSE c \in insp.ci : TRUE).Id, rm.err.op)>>
              ELSE c1
    IN
    IF rm.err # Nil THEN Ret(rm.w, Wrap(rm.err), c2)
    ELSE
    LET cr == CreateContainer(rm.w, redisImage, redisContainerName, f = "create")
        c3 == c2 \o <<Call("CreateContainer", redisContainerName, cr.id, cr.err.op)>>
    IN
    IF cr.err # Nil THEN Ret(cr.w, Wrap(cr.err), c3)
    ELSE
    LET st == StartContainer(cr.w, cr.id, f = "start")
        c4 == c3 \o <<Call("StartContainer", <<>>, cr.id, st.err.op)>>
    IN
    IF st.err # Nil THEN Ret(st.w, Wrap(st.err), c4)
    ELSE Ret(st.w, Nil, c4)

StartRellFailures ==
    {"none", "client", "inspect", "remove", "env", "create", "start"}

\* startRell without the test for a container that already runs
startRell_NoRunningCheck(w0, t, f) ==
    LET d             == docker(w0, f)
        w             == d.w
        containerName == containerNameForTag(t)
        insp          == InspectContainer(w, containerName, f)
        c1            == <<InspectCall(containerName, insp)>>
    IN
    IF d.err # Nil THEN Ret(w, d.err, <<>>)
    ELSE IF insp.err # Nil /\ insp.err # ErrNotFound
    THEN Ret(w, Wrap(insp.err), c1)
    ELSE
    LET rm == IF insp.err = Nil
              THEN RemoveByName(w, containerName, f = "remove")
              ELSE [w |-> w, err |-> Nil]
        c2 == IF insp.err = Nil
              THEN c1 \o <<Call("RemoveContainer", containerName,
                                (CHOOSE c \in insp.ci : TRUE).Id, rm.err.op)>>
              ELSE c1
    IN
    IF rm.err # Nil THEN Ret(rm.w, Wrap(rm.err), c2)
    ELSE IF f = "env" THEN Ret(rm.w, Wrap(Err("ReadFile", 0)), c2)
    ELSE
    LET cr == CreateContainer(rm.w, rellImageForTag(t), containerName, f = "create")
        c3 == c2 \o <<Call("CreateContainer", containerName, cr.id, cr.err.op)>>
    IN
    IF cr.err # Nil THEN Ret(cr.w, Wrap(cr.err), c3)
    ELSE
    LET st == StartContainer(cr.w, cr.id, f = "start")
        c4 == c3 \o <<Call("StartContainer", <<>>, cr.id, st.err.op)>>
    IN
    IF st.err # Nil THEN Ret(st.w, Wrap(st.err), c4)
    ELSE Ret(st.w, Nil, c4)

\* startRell bailing out on every inspect error, not found included
startRell_NotFoundFatal(w0, t, f) ==
    LET d             == docker(w0, f)
        w             == d.w
        containerName == containerNameForTag(t)
        insp          == InspectContainer(w, containerName, f)
        c1            == <<InspectCall(containerName, insp)>>
    IN
    IF d.err # Nil THEN Ret(w, d.err, <<>>)
    ELSE IF insp.err = Nil /\ (CHOOSE c \in insp.ci : TRUE).Running
    THEN Ret(w, Nil, c1)
    ELSE IF insp.err # Nil
    THEN Ret(w, Wrap(insp.err), c1)
    ELSE
    LET rm == IF insp.err = Nil
              THEN RemoveByName(w, containerName, f = "remove")
              ELSE [w |-> w, err |-> Nil]
        c2 == IF insp.err = Nil
              THEN c1 \o <<Call("RemoveContainer", containerName,
                                (CHOOSE c \in insp.ci : TRUE).Id, rm.err.op)>>
              ELSE c1
    IN
    IF rm.err # Nil THEN Ret(rm.w, Wrap(rm.err), c2)
    ELSE IF f = "env" THEN Ret(rm.w, Wrap(Err("ReadFile", 0)), c2)
    ELSE
    LET cr == CreateContainer(rm.w, rellImageForTag(t), containerName, f = "create")
        c3 == c2 \o <<Call("CreateContainer", containerName, cr.id, cr.err.op)>>
    IN
    IF cr.err # Nil THEN Ret(cr.w, Wrap(cr.err), c3)
    ELSE
    LET st == StartContainer(cr.w, cr.id, f = "start")
        c4 == c3 \o <<Call("StartContainer", <<>>, cr.id, st.err.op)>>
    IN
    IF st.err # Nil THEN Ret(st.w, Wrap(st.err), c4)
    ELSE Ret(st.w, Nil, c4)

startRell(w0, t, f) ==
    LET d             == docker(w0, f)
        w             == d.w
        containerName == containerNameForTag(t)
        insp          == InspectContainer(w, containerName, f)
        c1            == <<InspectCall(containerName, insp)>>
    IN
    IF d.err # Nil THEN Ret(w, d.err, <<>>)
    ELSE IF insp.err = Nil /\ (CHOOSE c \in insp.ci : TRUE).Running
    THEN Ret(w, Nil, c1)
    ELSE IF insp.err # Nil /\ insp.err # ErrNotFound
    THEN Ret(w, Wrap(insp.err), c1)
    ELSE
    LET rm == IF insp.err = Nil
              THEN RemoveByName(w, containerName, f = "remove")
              ELSE [w |-> w, err |-> Nil]
        c2 == IF insp.err = Nil
              THEN c1 \o <<Call("RemoveContainer", containerName,
                                (CHOOSE c \in insp.ci : TRUE).Id, rm.err.op)>>
              ELSE c1
    IN
    IF rm.err # Nil THEN Ret(rm.w, Wrap(rm.err), c2)
    ELSE IF f = "env" THEN Ret(rm.w, Wrap(Err("ReadFile", 0)), c2)
    ELSE
    LET cr == CreateContainer(rm.w, rellImageForTag(t), containerName, f = "create")
        c3 == c2 \o <<Call("CreateContainer", containerName, cr.id, cr.err.op)>>
    IN
    IF cr.err # Nil THEN Ret(cr.w, Wrap(cr.err), c3)
    ELSE
    LET st == StartContainer(cr.w, cr.id, f = "start")
        c4 == c3 \o <<Call("StartContainer", <<>>, cr.id, st.err.op)>>
    IN
    IF st.err # Nil THEN Ret(st.w, Wrap(st.err), c4)
    ELSE Ret(st.w, Nil, c4)


(* -------------------------------- files ------------------------------- *)

\* the content of a file: what was rendered into it and whether all of it
\* was written
Content(kind, backend, ip, text, complete) ==
    [kind |-> kind, backend |-> backend, ip |-> ip, text |-> text,
     complete |-> complete]

\* os.Create: the file exists and is empty
EmptyFile == Content("empty", <<>>, 0, <<>>, FALSE)

WriteFile(fs, path, content) == (path :> content) @@ fs

\* os.Remove
RemoveFile(fs, path) == [q \in DOMAIN fs \ {path} |-> fs[q]]

GenTagNginxConfFailures ==
    {"none", "client", "inspect", "create", "render", "close"}

genTagNginxConf(w0, t, f) ==
    LET d             == docker(w0, f)
        w             == d.w
        containerName == containerNameForTag(t)
        insp          == InspectContainer(w, containerName, f)
        c1            == <<InspectCall(containerName, insp)>>
        filename      == containerNginxConfPath(containerName)
        ci            == CHOOSE c \in insp.ci : TRUE
        data          == Content("tag", containerName, ci.Ip, t, TRUE)
    IN
    IF d.err # Nil THEN Ret(w, d.err, <<>>)
    ELSE IF insp.err # Nil THEN Ret(w, Wrap(insp.err), c1)
    ELSE IF f = "create" THEN Ret(w, Wrap(Err("os.Create", 0)), c1)
    ELSE IF f = "render"
    THEN Ret([w EXCEPT !.fs = RemoveFile(WriteFile(@, filename, EmptyFile), filename)],
             Wrap(Err("Execute", 0)), c1)
    ELSE IF f = "close"
    THEN Ret([w EXCEPT !.fs = WriteFile(@, filename, data)],
             Wrap(Err("Close", 0)), c1)
    ELSE Ret([w EXCEPT !.fs = WriteFile(@, filename, data)], Nil, c1)

SwitchProdFailures ==
    {"none", "create", "render", "close", "tagcreate", "tagwrite", "tagclose"}

\* switchProd recording the tag before it rewrites the production config
switchProd_TagFirst(w, t, f) ==
    LET containerName == containerNameForTag(t)
        filename      == prodNginxConfPath
        data          == Content("prod", containerName, 0, <<>>, TRUE)
        tagdata       == Content("text", <<>>, 0, t, TRUE)
        tagged        == WriteFile(w.fs, lastDeployTagFile, tagdata)
        written       == WriteFile(tagged, filename, data)
    IN
    IF f = "tagcreate" THEN Ret(w, Wrap(Err("os.Create", 0)), <<>>)
    ELSE IF f = "tagwrite"
    THEN Ret([w EXCEPT !.fs = WriteFile(@, lastDeployTagFile, EmptyFile)],
             Wrap(Err("Fprint", 0)), <<>>)
    ELSE IF f = "tagclose"
    THEN Ret([w EXCEPT !.fs = tagged], Wrap(Err("Close", 0)), <<>>)
    ELSE IF f = "create"
    THEN Ret([w EXCEPT !.fs = tagged], Wrap(Err("os.Create", 0)), <<>>)
    ELSE IF f = "render"
    THEN Ret([w EXCEPT !.fs = RemoveFile(WriteFile(tagged, filename, EmptyFile),
                                         filename)],
             Wrap(Err("Execute", 0)), <<>>)
    ELSE IF f = "close"
    THEN Ret([w EXCEPT !.fs = written], Wrap(Err("Close", 0)), <<>>)
    ELSE Ret([w EXCEPT !.fs = written], Nil, <<>>)

switchProd(w, t, f) ==
    LET containerName == containerNameForTag(t)
        filename      == prodNginxConfPath
        data          == Content("prod", containerName, 0, <<>>, TRUE)
        written       == WriteFile(w.fs, filename, data)
        tagdata       == Content("text", <<>>, 0, t, TRUE)
    IN
    IF f = "create" THEN Ret(w, Wrap(Err("os.Create", 0)), <<>>)
    ELSE IF f = "render"
    THEN Ret([w EXCEPT !.fs = RemoveFile(WriteFile(@, filename, EmptyFile), filename)],
             Wrap(Err("Execute", 0)), <<>>)
    ELSE IF f = "close"
    THEN Ret([w EXCEPT !.fs = written], Wrap(Err("Close", 0)), <<>>)
    ELSE IF f = "tagcreate"
    THEN Ret([w EXCEPT !.fs = written], Wrap(Err("os.Create", 0)), <<>>)
    ELSE IF f = "tagwrite"
    THEN Ret([w EXCEPT !.fs = WriteFile(written, lastDeployTagFile, EmptyFile)],
             Wrap(Err("Fprint", 0)), <<>>)
    ELSE IF f = "tagclose"
    THEN Ret([w EXCEPT !.fs = WriteFile(written, lastDeployTagFile, tagdata)],
             Wrap(Err("Close", 0)), <<>>)
    ELSE Ret([w EXCEPT !.fs = WriteFile(written, lastDeployTagFile, tagdata)],
             Nil, <<>>)

HupNginxFailures == {"none", "ReadFile", "Atoi", "Signal"}

\* hupNginx: the pid file is read and parsed and the process is signalled
hupNginx(w, f) ==
    IF f # "none" THEN Ret(w, Wrap(Err(f, 0)), <<>>)
    ELSE Ret(w, Nil, <<>>)

(* ------------------------------- cleanup ------------------------------ *)

\* ListContainers(all = true): every container, the newest first
RECURSIVE ListFrom(_)
ListFrom(cs) ==
    IF cs = {} THEN <<>>
    ELSE LET c == CHOOSE x \in cs : \A y \in cs : y.Id <= x.Id
         IN  <<c>> \o ListFrom(cs \ {c})

ListContainers(w, fail) ==
    IF fail THEN [err |-> Err("ListContainers", 0), containers |-> <<>>]
    ELSE [err |-> Nil, containers |-> ListFrom(w.cs)]

\* StopContainer: a running container stops and gives up its address
StopContainer(w, id, fail) ==
    IF fail THEN w
    ELSE [w EXCEPT !.cs = {IF c.Id = id
                           THEN [c EXCEPT !.Running = FALSE, !.Ip = 0]
                           ELSE c : c \in @}]

\* RemoveContainer by id: the runtime refuses to remove a running container
RemoveById(w, id, fail) ==
    LET found == {c \in w.cs : c.Id = id}
        bad   == fail \/ found = {} \/ \E c \in found : c.Running
    IN  [w   |-> IF bad THEN w ELSE [w EXCEPT !.cs = @ \ found],
         err |-> IF bad THEN Err("RemoveContainer", id) ELSE Nil]

KillFailures == {"conf", "stop", "rm"}

\* killExcept up to its loop: the containers are listed
killExceptList(w0, f) ==
    LET d    == docker(w0, f)
        w    == d.w
        list == ListContainers(w, f = "list")
    IN
    IF d.err # Nil THEN [w |-> w, err |-> d.err, containers |-> <<>>]
    ELSE IF list.err # Nil
    THEN [w |-> w, err |-> Wrap(list.err), containers |-> <<>>]
    ELSE [w |-> w, err |-> Nil, containers |-> list.containers]

\* killExcept without the test of the image of the listed container
killExceptTurn_NoImageCheck(w, t, c, fails, errs) ==
    LET cTag == tagFromNames(c.Names) IN
    IF cTag = t
    THEN [w |-> w, errs |-> errs, calls |-> <<>>]
    ELSE
    LET cName == containerNameForTag(cTag)
        path  == containerNginxConfPath(cName)
        w1    == IF "conf" \in fails THEN w
                 ELSE [w EXCEPT !.fs = RemoveFile(@, path)]
        w2    == StopContainer(w1, c.Id, "stop" \in fails)
        rm    == RemoveById(w2, c.Id, "rm" \in fails)
    IN  [w     |-> rm.w,
         errs  |-> IF rm.err # Nil THEN Append(errs, rm.err) ELSE errs,
         calls |-> <<Call("os.Remove", cName, c.Id,
                          IF "conf" \in fails THEN "error" ELSE "nil"),
                     Call("StopContainer", <<>>, c.Id,
                          IF "stop" \in fails THEN "error" ELSE "nil"),
                     Call("RemoveContainer", <<>>, c.Id, rm.err.op)>>]

\* one turn of the loop of killExcept, for the listed container c; fails
\* names the calls that fail in this turn
killExceptTurn(w, t, c, fails, errs) ==
    IF ~HasPrefix(c.Image, rellImage \o <<":">>)
    THEN [w |-> w, errs |-> errs, calls |-> <<>>]
    ELSE
    LET cTag == tagFromNames(c.Names) IN
    IF cTag = t
    THEN [w |-> w, errs |-> errs, calls |-> <<>>]
    ELSE
    LET cName == containerNameForTag(cTag)
        path  == containerNginxConfPath(cName)
        w1    == IF "conf" \in fails THEN w
                 ELSE [w EXCEPT !.fs = RemoveFile(@, path)]
        w2    == StopContainer(w1, c.Id, "stop" \in fails)
        rm    == RemoveById(w2, c.Id, "rm" \in fails)
    IN  [w     |-> rm.w,
         errs  |-> IF rm.err # Nil THEN Append(errs, rm.err) ELSE errs,
         calls |-> <<Call("os.Remove", cName, c.Id,
                          IF "conf" \in fails THEN "error" ELSE "nil"),
                     Call("StopContainer", <<>>, c.Id,
                          IF "stop" \in fails THEN "error" ELSE "nil"),
                     Call("RemoveContainer", <<>>, c.Id, rm.err.op)>>]

\* killExcept returning the first error it collected and dropping the rest
killExceptResult_FirstOnly(errs) ==
    IF Len(errs) = 0 THEN Nil ELSE Wrap(errs[1])

\* what killExcept returns when its loop has collected errs
killExceptResult(errs) ==
    IF Len(errs) = 0 THEN Nil
    ELSE IF Len(errs) = 1 THEN Wrap(errs[1])
    ELSE Wrap(multiError(errs))

(* ------------------------------ readiness ----------------------------- *)

InfoCheckFailures == {"none", "client", "inspect"}

\* infoCheck up to its loop: the container is inspected for its address
infoCheckInspect(w0, t, f) ==
    LET d             == docker(w0, f)
        w             == d.w
        containerName == containerNameForTag(t)
        insp          == InspectContainer(w, containerName, f)
        c1            == <<InspectCall(containerName, insp)>>
    IN
    IF d.err # Nil THEN Ret(w, d.err, <<>>)
    ELSE IF insp.err # Nil THEN Ret(w, Wrap(insp.err), c1)
    ELSE Ret(w, Nil, c1)

\* what http.Head gives: a response (of whatever status) or an error
PollResponses == {"200 OK", "500 Internal Server Error"}

PollErrors == {"connection refused", "i/o timeout"}

\* the time the loop started at is 0, so until is the window
until == infoCheckMaxWait

\* the loop of infoCheck giving up at the deadline, not after it
infoCheckPoll_AtDeadline(now, res) ==
    IF res \in {"connection refused", "i/o timeout"}
    THEN IF now >= infoCheckMaxWait
         THEN [done |-> TRUE, err |-> Wrap(Err(res, 0)), clock |-> now]
         ELSE [done |-> FALSE, err |-> Nil, clock |-> now + infoCheckSleep]
    ELSE [done |-> TRUE, err |-> Nil, clock |-> now]

\* one turn of the loop of infoCheck: http.Head returns res at time now;
\* an error after until ends the loop with it, an earlier one sleeps and
\* goes round again, a response ends the loop with nil
infoCheckPoll(now, res) ==
    IF res \in PollErrors
    THEN IF now > until
         THEN [done |-> TRUE, err |-> Wrap(Err(res, 0)), clock |-> now]
         ELSE [done |-> FALSE, err |-> Nil, clock |-> now + infoCheckSleep]
    ELSE [done |-> TRUE, err |-> Nil, clock |-> now]

\* what is remembered of the polls of one infoCheck: how many there were,
\* when the last one returned and with what, the last error, and whether a
\* response arrived within the window
NoPolls == [n |-> 0, at |-> 0, res |-> "", lastErr |-> "", responded |-> FALSE]

\* killExcept before it has listed the containers
NoKill == [containers |-> <<>>, i |-> 1, errs |-> <<>>]

(* ------------------------------ DeployTag ----------------------------- *)

\* DeployTag promoting before it has waited for readiness
deployTagNext_PromoteFirst(step, isProd) ==
    CASE step = "startRedis"      -> "startRell"
      [] step = "startRell"       -> "genTagNginxConf"
      [] step = "genTagNginxConf" -> IF isProd THEN "switchProd" ELSE "infoCheck"
      [] step = "switchProd"      -> "infoCheck"
      [] step = "infoCheck"       -> "hupNginx"
      [] step = "hupNginx"        -> IF isProd THEN "killExcept" ELSE "returned"
      [] step = "killExcept"      -> "returned"

\* DeployTag reloading the proxy only when it promotes
deployTagNext_HupOnlyProd(step, isProd) ==
    CASE step = "startRedis"      -> "startRell"
      [] step = "startRell"       -> "genTagNginxConf"
      [] step = "genTagNginxConf" -> "infoCheck"
      [] step = "infoCheck"       -> IF isProd THEN "switchProd" ELSE "returned"
      [] step = "switchProd"      -> "hupNginx"
      [] step = "hupNginx"        -> "killExcept"
      [] step = "killExcept"      -> "returned"

\* the step DeployTag goes to when a step has returned nil
deployTagNext(step, isProd) ==
    CASE step = "startRedis"      -> "startRell"
      [] step = "startRell"       -> "genTagNginxConf"
      [] step = "genTagNginxConf" -> "infoCheck"
      [] step = "infoCheck"       -> IF isProd THEN "switchProd" ELSE "hupNginx"
      [] step = "switchProd"      -> "hupNginx"
      [] step = "hupNginx"        -> IF isProd THEN "killExcept" ELSE "returned"
      [] step = "killExcept"      -> "returned"

\* where DeployTag stands when a step has returned err
deployTagAfter(step, isProd, err) ==
    IF err # Nil THEN "returned" ELSE deployTagNext(step, isProd)

VARIABLES
    world,    \* the containers, the files, the next container id, the client
    pc,       \* pc[p]: where invocation p of DeployTag stands
    tag,      \* tag[p], prod[p]: the arguments of the invocation
    prod,
    result,   \* result[p]: what DeployTag returned
    trace,    \* trace[p]: the steps the invocation has run, with their errors
    calls,    \* calls[p]: the runtime calls of the step that ran last
    clock,    \* clock[p]: the time since infoCheck computed until
    polls,    \* polls[p]: the polls of the running infoCheck
    kill,     \* kill[p]: the list, the index and the errors of killExcept
    deploys   \* the number of invocations begun

vars ==
    <<world, pc, tag, prod, result, trace, calls, clock, polls, kill, deploys>>

(* ----------------------------- initial state -------------------------- *)

ContainerStates == {"absent", "stopped", "running"}

\* a container as an earlier deploy created it
Container(id, name, image, state) ==
    IF state = "absent" THEN {}
    ELSE {[Id |-> id, Names |-> << <<"/">> \o name >>, Image |-> image,
           Running |-> state = "running",
           Ip |-> IF state = "running" THEN id ELSE 0]}

\* a container of the release image that was started by hand under a name
\* of its own
strayName == <<"w", "e", "b">>

\* the upstream files of the release containers that exist
RECURSIVE InitConfs(_)
InitConfs(cs) ==
    IF cs = {} THEN <<>>
    ELSE LET c == CHOOSE x \in cs : TRUE
             t == tagFromNames(c.Names)
         IN  IF c.Image = rellImageForTag(t)
             THEN WriteFile(InitConfs(cs \ {c}),
                            containerNginxConfPath(containerNameForTag(t)),
                            Content("tag", containerNameForTag(t), c.Id, t, TRUE))
             ELSE InitConfs(cs \ {c})

\* the production files as a promotion of t left them
InitProd(fs, t) ==
    WriteFile(WriteFile(fs, prodNginxConfPath,
                        Content("prod", containerNameForTag(t), 0, <<>>, TRUE)),
              lastDeployTagFile, Content("text", <<>>, 0, t, TRUE))

InitWorlds ==
    {[cs |-> cs, fs |-> fs, nextId |-> 5, client |-> "unset"] :
       <<cs, fs>> \in UNION {
         LET cs == Container(1, redisContainerName, redisImage, r)
                   \cup Container(2, containerNameForTag(<<"a">>),
                                  rellImageForTag(<<"a">>), a)
                   \cup Container(3, containerNameForTag(<<"b">>),
                                  rellImageForTag(<<"b">>), b)
                   \cup Container(4, strayName, rellImageForTag(<<"a">>), s)
             promoted == {t \in Tags : \E c \in Named(cs, containerNameForTag(t)) :
                                          c.Running}
         IN  {<<cs, InitConfs(cs)>>}
             \cup {<<cs, InitProd(InitConfs(cs), t)>> : t \in promoted}
         : r \in ContainerStates, a \in ContainerStates,
           b \in {"absent", "running"}, s \in {"absent", "running"}}}

Init ==
    /\ world \in InitWorlds
    /\ pc = [p \in Procs |-> "idle"]
    /\ tag = [p \in Procs |-> <<>>]
    /\ prod = [p \in Procs |-> FALSE]
    /\ result = [p \in Procs |-> Nil]
    /\ trace = [p \in Procs |-> <<>>]
    /\ calls = [p \in Procs |-> <<>>]
    /\ clock = [p \in Procs |-> 0]
    /\ polls = [p \in Procs |-> NoPolls]
    /\ kill = [p \in Procs |-> NoKill]
    /\ deploys = 0

(* ------------------------------- actions ------------------------------ *)

Idle(p) == pc[p] \in {"idle", "returned"}

\* DeployTag(t, isProd) is called
Begin(p) ==
    /\ Idle(p)
    /\ deploys < MaxDeploys
    /\ \E t \in Tags, isProd \in BOOLEAN :
         /\ tag' = [tag EXCEPT ![p] = t]
         /\ prod' = [prod EXCEPT ![p] = isProd]
    /\ pc' = [pc EXCEPT ![p] = "startRedis"]
    /\ result' = [result EXCEPT ![p] = Nil]
    /\ trace' = [trace EXCEPT ![p] = <<>>]
    /\ calls' = [calls EXCEPT ![p] = <<>>]
    /\ clock' = [clock EXCEPT ![p] = 0]
    /\ polls' = [polls EXCEPT ![p] = NoPolls]
    /\ kill' = [kill EXCEPT ![p] = NoKill]
    /\ deploys' = deploys + 1
    /\ UNCHANGED world

\* a step of DeployTag has returned r: its error ends the invocation,
\* nil takes it to the next step
Returned(p, step, r) ==
    /\ world' = r.w
    /\ calls' = [calls EXCEPT ![p] = r.calls]
    /\ trace' = [trace EXCEPT ![p] = Append(@, [step |-> step, err |-> r.err])]
    /\ pc' = [pc EXCEPT ![p] = deployTagAfter(step, prod[p], r.err)]
    /\ result' = [result EXCEPT ![p] = r.err]
    /\ clock' = [clock EXCEPT ![p] = 0]
    /\ polls' = [polls EXCEPT ![p] = NoPolls]
    /\ UNCHANGED <<tag, prod, kill, deploys>>

StartRedis(p) ==
    /\ pc[p] = "startRedis"
    /\ \E f \in StartRedisFailures : Returned(p, "startRedis", startRedis(world, f))

StartRell(p) ==
    /\ pc[p] = "startRell"
    /\ \E f \in StartRellFailures :
         Returned(p, "startRell", startRell(world, tag[p], f))

GenTagNginxConf(p) ==
    /\ pc[p] = "genTagNginxConf"
    /\ \E f \in GenTagNginxConfFailures :
         Returned(p, "genTagNginxConf", genTagNginxConf(world, tag[p], f))

\* infoCheck up to its loop
InfoCheck(p) ==
    /\ pc[p] = "infoCheck"
    /\ \E f \in InfoCheckFailures :
         LET r == infoCheckInspect(world, tag[p], f) IN
         IF r.err # Nil THEN Returned(p, "infoCheck", r)
         ELSE /\ world' = r.w
              /\ calls' = [calls EXCEPT ![p] = r.calls]
              /\ pc' = [pc EXCEPT ![p] = "infoCheckLoop"]
              /\ clock' = [clock EXCEPT ![p] = 0]
              /\ polls' = [polls EXCEPT ![p] = NoPolls]
              /\ UNCHANGED <<tag, prod, result, trace, kill, deploys>>

\* one turn of the loop of infoCheck: http.Head takes d and gives res
InfoCheckLoop(p) ==
    /\ pc[p] = "infoCheckLoop"
    /\ \E d \in 0..MaxPollTicks, res \in PollResponses \cup PollErrors :
         LET now  == clock[p] + d
             r    == infoCheckPoll(now, res)
             seen == [n         |-> polls[p].n + 1,
                      at        |-> now,
                      res       |-> res,
                      lastErr   |-> IF res \in PollErrors THEN res
                                    ELSE polls[p].lastErr,
                      responded |-> polls[p].responded
                                    \/ (res \in PollResponses /\ now <= until)]
         IN
         /\ polls' = [polls EXCEPT ![p] = seen]
         /\ clock' = [clock EXCEPT ![p] = r.clock]
         /\ IF r.done
            THEN /\ trace' = [trace EXCEPT
                                ![p] = Append(@, [step |-> "infoCheck", err |-> r.err])]
                 /\ pc' = [pc EXCEPT
                             ![p] = deployTagAfter("infoCheck", prod[p], r.err)]
                 /\ result' = [result EXCEPT ![p] = r.err]
            ELSE UNCHANGED <<trace, pc, result>>
         /\ UNCHANGED <<world, calls, tag, prod, kill, deploys>>

SwitchProd(p) ==
    /\ pc[p] = "switchProd"
    /\ \E f \in SwitchProdFailures :
         Returned(p, "switchProd", switchProd(world, tag[p], f))

HupNginx(p) ==
    /\ pc[p] = "hupNginx"
    /\ \E f \in HupNginxFailures : Returned(p, "hupNginx", hupNginx(world, f))

\* killExcept up to its loop
KillExcept(p) ==
    /\ pc[p] = "killExcept"
    /\ \E f \in {"none", "client", "list"} :
         LET r == killExceptList(world, f) IN
         IF r.err # Nil THEN Returned(p, "killExcept", Ret(r.w, r.err, <<>>))
         ELSE /\ world' = r.w
              /\ kill' = [kill EXCEPT ![p] = [containers |-> r.containers,
                                              i |-> 1, errs |-> <<>>]]
              /\ calls' = [calls EXCEPT ![p] = <<>>]
              /\ pc' = [pc EXCEPT ![p] = "killExceptLoop"]
              /\ clock' = [clock EXCEPT ![p] = 0]
              /\ polls' = [polls EXCEPT ![p] = NoPolls]
              /\ UNCHANGED <<tag, prod, result, trace, deploys>>

\* one turn of the loop of killExcept
KillExceptLoop(p) ==
    /\ pc[p] = "killExceptLoop"
    /\ kill[p].i <= Len(kill[p].containers)
    /\ \E fails \in SUBSET KillFailures :
         LET r == killExceptTurn(world, tag[p], kill[p].containers[kill[p].i],
                                 fails, kill[p].errs)
         IN  /\ world' = r.w
             /\ kill' = [kill EXCEPT ![p].i = @ + 1, ![p].errs = r.errs]
             /\ calls' = [calls EXCEPT ![p] = @ \o r.calls]
    /\ UNCHANGED <<pc, tag, prod, result, trace, clock, polls, deploys>>

\* the loop of killExcept is over: the errors it collected are returned
KillExceptReturn(p) ==
    /\ pc[p] = "killExceptLoop"
    /\ kill[p].i > Len(kill[p].containers)
    /\ Returned(p, "killExcept",
                Ret(world, killExceptResult(kill[p].errs), calls[p]))

\* the deploy command calls DeployTag from its one goroutine
Caller == 1

Step(p) ==
    \/ StartRedis(p)
    \/ StartRell(p)
    \/ GenTagNginxConf(p)
    \/ InfoCheck(p)
    \/ InfoCheckLoop(p)
    \/ SwitchProd(p)
    \/ HupNginx(p)
    \/ KillExcept(p)
    \/ KillExceptLoop(p)
    \/ KillExceptReturn(p)

Next ==
    \/ Begin(Caller)
    \/ \E p \in Procs : Step(p)

Spec == Init /\ [][Next]_vars


(* ------------------------------- claims ------------------------------- *)

\* the steps of DeployTag in the order the workflow names them
Expected(isProd) ==
    IF isProd
    THEN <<"startRedis", "startRell", "genTagNginxConf", "infoCheck",
           "switchProd", "hupNginx", "killExcept">>
    ELSE <<"startRedis", "startRell", "genTagNginxConf", "infoCheck",
           "hupNginx">>

\* the step an invocation is in
StepAt(p) ==
    CASE pc[p] = "infoCheckLoop"  -> "infoCheck"
      [] pc[p] = "killExceptLoop" -> "killExcept"
      [] OTHER                    -> pc[p]

Ok(p, step) == \E i \in 1..Len(trace[p]) :
                  trace[p][i].step = step /\ trace[p][i].err = Nil

Failed(p, step) == \E i \in 1..Len(trace[p]) :
                      trace[p][i].step = step /\ trace[p][i].err # Nil

Last(seq) == seq[Len(seq)]

\* C1: the steps of one DeployTag run in the order startRedis, startRell,
\* genTagNginxConf, infoCheck, switchProd (when promoting), hupNginx,
\* killExcept (when promoting): the steps run so far are a prefix of that
\* order, every one but the last returned nil, and the invocation stands at
\* the next step of the order, or has returned when the last step failed or
\* the order is exhausted; hupNginx is in the order with and without
\* promotion.
C1_StepOrder ==
    \A p \in Procs :
      pc[p] # "idle" =>
        LET tr == trace[p]
            ex == Expected(prod[p])
            n  == Len(tr)
        IN  /\ n <= Len(ex)
            /\ \A i \in 1..n : /\ tr[i].step = ex[i]
                               /\ i < n => tr[i].err = Nil
            /\ StepAt(p) = IF n > 0 /\ tr[n].err # Nil THEN "returned"
                           ELSE IF n = Len(ex) THEN "returned"
                           ELSE ex[n + 1]

\* a deploy without promotion has run all its steps, hupNginx the last
C1_Witness ==
    \E p \in Procs :
      /\ pc[p] = "returned" /\ ~prod[p] /\ result[p] = Nil
      /\ Len(trace[p]) = 5 /\ Last(trace[p]).step = "hupNginx"


\* the file at path, as a set: empty when there is no such file
FileAt(w, path) == IF path \in DOMAIN w.fs THEN {w.fs[path]} ELSE {}

\* the release of tag[p] is up: its container runs, its upstream file is
\* written with the address of the container, and the steps that did so
\* and the readiness probe have returned nil in this invocation
ReadyToPromote(p) ==
    /\ prod[p]
    /\ Ok(p, "startRell") /\ Ok(p, "genTagNginxConf") /\ Ok(p, "infoCheck")
    /\ \E c \in Named(world.cs, containerNameForTag(tag[p])) :
         /\ c.Running
         /\ FileAt(world, containerNginxConfPath(containerNameForTag(tag[p])))
              = {Content("tag", containerNameForTag(tag[p]), c.Ip, tag[p], TRUE)}

\* a failed readiness probe ended the invocation
ProbeFailureEnds(p) ==
    Failed(p, "infoCheck") =>
      /\ pc[p] = "returned"
      /\ Last(trace[p]).step = "infoCheck"
      /\ \A i \in 1..Len(trace[p]) :
           trace[p][i].step \notin {"switchProd", "killExcept"}

Victims(p) ==
    {i \in 1..Len(kill[p].containers) :
       /\ HasPrefix(kill[p].containers[i].Image, rellImage \o <<":">>)
       /\ \A j \in 1..Len(kill[p].containers[i].Names) :
            kill[p].containers[i].Names[j]
              # <<"/">> \o rellContainerNamePrefix \o tag[p]}

\* C4: killExcept(T) neither stops nor removes the container of T and does not
\* delete the upstream file of T: over every step of killExcept the container
\* named for T stays as it is and so does the file, and no stop, removal or
\* file deletion of the step is addressed to them.
C4_CurrentSurvives ==
    [][ \A p \in Procs :
          pc[p] \in {"killExcept", "killExceptLoop"} =>
            LET name == containerNameForTag(tag[p])
                path == containerNginxConfPath(name)
            IN  /\ \A c \in Named(world.cs, name) : c \in world'.cs
                /\ FileAt(world', path) = FileAt(world, path)
                /\ \A i \in 1..Len(calls'[p]) :
                     /\ calls'[p][i].name # name
                     /\ \A c \in Named(world.cs, name) : calls'[p][i].id # c.Id
      ]_vars

\* killExcept has removed another container and the current one runs on
C4_Witness ==
    \E p \in Procs :
      /\ Ok(p, "killExcept")
      /\ \E i \in 1..Len(calls[p]) :
           calls[p][i].op = "RemoveContainer" /\ calls[p][i].res = "nil"
      /\ \E c \in Named(world.cs, containerNameForTag(tag[p])) : c.Running
      /\ FileAt(world, containerNginxConfPath(containerNameForTag(tag[p]))) # {}

\* the removals among the calls of a step, and those of them that failed
Removals(cl) == SelectSeq(cl, LAMBDA c : c.op = "RemoveContainer")

FailedRemovals(cl) == SelectSeq(Removals(cl), LAMBDA c : c.res # "nil")

\* killExcept has listed the containers and gone through its loop
KillLoopDone(p) ==
    /\ pc[p] = "returned"
    /\ Len(trace[p]) > 0 /\ Last(trace[p]).step = "killExcept"
    /\ result[p].op \notin {"ListContainers", "NewDockerClient"}

\* C5: when killExcept has gone through N containers of the release image
\* other than the current one, it has made for each of them, in the order
\* listed, a file deletion, a stop and a removal, whatever failed before; with
\* K failed removals it returns nil iff K = 0, that removal error iff K = 1,
\* and a multiError of the K removal errors in their order iff K > 1; a
\* container is gone iff its removal returned nil.
C5_CleanupAggregates ==
    \A p \in Procs :
      KillLoopDone(p) =>
        LET rms    == Removals(calls[p])
            failed == FailedRemovals(calls[p])
            errs   == [i \in 1..Len(failed) |-> Err("RemoveContainer", failed[i].id)]
            K      == Len(failed)
        IN  /\ Len(calls[p]) = 3 * Cardinality(Victims(p))
            /\ Len(rms) = Cardinality(Victims(p))
            /\ {rms[i].id : i \in 1..Len(rms)}
                 = {kill[p].containers[i].Id : i \in Victims(p)}
            /\ \A i \in 1..Len(rms) :
                 /\ calls[p][3 * i - 2].op = "os.Remove"
                 /\ calls[p][3 * i - 1].op = "StopContainer"
                 /\ calls[p][3 * i] = rms[i]
                 /\ (rms[i].res = "nil") <=> ~\E c \in world.cs : c.Id = rms[i].id
            /\ (K = 0) <=> (result[p] = Nil)
            /\ (K = 1) <=> (K > 0 /\ result[p] = Wrap(errs[1]))
            /\ (K > 1) <=> (result[p] = Wrap(multiError(errs)))

\* killExcept has returned a multiError of two removal errors
C5_Witness ==
    \E p \in Procs :
      /\ KillLoopDone(p)
      /\ Len(FailedRemovals(calls[p])) = 2
      /\ result[p].op = "multiple errors"
      /\ \E i \in 1..Len(calls[p]) :
           calls[p][i].op = "StopContainer" /\ calls[p][i].res = "error"


CountOp(cl, op) == Len(SelectSeq(cl, LAMBDA c : c.op = op))

\* the calls of a second run leave everything alone
NoOpCalls(r) ==
    /\ CountOp(r.calls, "CreateContainer") = 0
    /\ CountOp(r.calls, "StartContainer") = 0
    /\ CountOp(r.calls, "RemoveContainer") = 0

\* one create and one start, or none when the container was found running
OnceOrNever(cl) ==
    LET n == IF cl[1].res = "running" THEN 0 ELSE 1
    IN  /\ cl[1].op = "InspectContainer"
        /\ CountOp(cl, "CreateContainer") = n
        /\ CountOp(cl, "StartContainer") = n

\* C6: when startRell(T) has returned nil, it has made one create and one
\* start call if it found the container absent or not running and none if it
\* found it running, and a second startRell(T) on the state it left, with no
\* call failing, returns nil, leaves the world as it is and makes no create,
\* start or remove call; the same holds of startRedis.
C6_EnsureIdempotent ==
    \A p \in Procs :
      /\ pc[p] = "genTagNginxConf" =>
           LET again == startRell(world, tag[p], "none")
           IN  /\ OnceOrNever(calls[p])
               /\ again.err = Nil /\ again.w = world /\ NoOpCalls(again)
      /\ pc[p] = "startRell" =>
           LET again == startRedis(world, "none")
           IN  /\ OnceOrNever(calls[p])
               /\ again.err = Nil /\ again.w = world /\ NoOpCalls(again)

\* startRell has created and started the container it found stopped
C6_Witness ==
    \E p \in Procs :
      /\ pc[p] = "genTagNginxConf"
      /\ calls[p][1].res = "stopped"
      /\ CountOp(calls[p], "StartContainer") = 1

\* startRedis or startRell is the step that returned last
EnsureStepDone(p) ==
    /\ Len(trace[p]) > 0
    /\ Last(trace[p]).step \in {"startRedis", "startRell"}
    /\ StepAt(p) \in {"startRell", "genTagNginxConf", "returned"}
    /\ calls[p] # <<>>

\* C7: when startRedis or startRell has found its container existing but not
\* running, its next call removed that container; if the removal failed the
\* step returned the error and made no further call; otherwise the container
\* is gone, a create and a start can only follow the removal, and the start is
\* of the container the create returned, never of the one found.
C7_RemoveBeforeRecreate ==
    \A p \in Procs :
      (EnsureStepDone(p) /\ calls[p][1].res = "stopped") =>
        LET cl == calls[p] IN
        /\ Len(cl) >= 2
        /\ cl[2].op = "RemoveContainer" /\ cl[2].id = cl[1].id
        /\ cl[2].res # "nil" =>
             /\ Len(cl) = 2
             /\ Last(trace[p]).err = Wrap(Err("RemoveContainer", 0))
             /\ \E c \in world.cs : c.Id = cl[1].id /\ ~c.Running
        /\ cl[2].res = "nil" => ~\E c \in world.cs : c.Id = cl[1].id
        /\ \A i \in 1..Len(cl) :
             /\ cl[i].op = "CreateContainer" => i = 3
             /\ cl[i].op = "StartContainer" =>
                  /\ i = 4 /\ cl[3].res = "nil"
                  /\ cl[i].id = cl[3].id /\ cl[i].id # cl[1].id
        /\ Last(trace[p]).err = Nil => Len(cl) = 4

\* a stopped container was removed and a fresh one created and started
C7_Witness ==
    \E p \in Procs :
      /\ EnsureStepDone(p) /\ Last(trace[p]).step = "startRedis"
      /\ calls[p][1].res = "stopped"
      /\ Len(calls[p]) = 4 /\ calls[p][4].res = "nil"

\* C8: when the inspect of startRedis or startRell returned an error other
\* than not found, the step returned that error and made no other call; when
\* it returned not found, the step did not return not found, made no remove
\* call, its next call was the create and, the create having succeeded, the
\* start of the created container, and it returned nil only after both.
C8_InspectErrors ==
    \A p \in Procs :
      EnsureStepDone(p) =>
        LET cl == calls[p] IN
        /\ cl[1].op = "InspectContainer"
        /\ cl[1].res = "InspectContainer" =>
             /\ Len(cl) = 1
             /\ Last(trace[p]).err = Wrap(Err("InspectContainer", 0))
        /\ cl[1].res = "ErrNotFound" =>
             /\ Last(trace[p]).err.op # "ErrNotFound"
             /\ CountOp(cl, "RemoveContainer") = 0
             /\ Len(cl) >= 2 => cl[2].op = "CreateContainer"
             /\ (Len(cl) >= 2 /\ cl[2].res = "nil") =>
                  /\ Len(cl) = 3
                  /\ cl[3].op = "StartContainer" /\ cl[3].id = cl[2].id
             /\ Len(cl) = 1 => Last(trace[p]).err = Wrap(Err("ReadFile", 0))
             /\ Last(trace[p]).err = Nil =>
                  /\ Len(cl) = 3
                  /\ \E c \in world.cs : c.Id = cl[3].id /\ c.Running

\* an inspect error other than not found ended startRell
C8_Witness ==
    \E p \in Procs :
      /\ EnsureStepDone(p) /\ Last(trace[p]).step = "startRell"
      /\ calls[p][1].res = "InspectContainer"
      /\ result[p] = Wrap(Err("InspectContainer", 0))

\* not found led startRell to create and start the container
C8_WitnessNotFound ==
    \E p \in Procs :
      /\ EnsureStepDone(p) /\ Last(trace[p]).step = "startRell"
      /\ calls[p][1].res = "ErrNotFound" /\ Len(calls[p]) = 3
      /\ Last(trace[p]).err = Nil


\* infoCheck is the step that returned last, and it got as far as polling
JustProbed(p) ==
    /\ Len(trace[p]) > 0
    /\ Last(trace[p]).step = "infoCheck"
    /\ polls[p].n > 0

\* C9 as claimed: infoCheck returns nil when a poll got a response within
\* the window of infoCheckMaxWait, and an error when none did.
C9_SuccessOnlyWithinWindow ==
    \A p \in Procs :
      JustProbed(p) => ((Last(trace[p]).err = Nil) <=> polls[p].responded)

\* C9 as amended: infoCheck returns nil exactly when its last poll got a
\* response, which ends the loop at once; it returns an error only when a
\* poll has failed after the window, and the error is the error of that last
\* poll; the loop goes round again only after a poll that failed no later
\* than the end of the window, sleeping infoCheckSleep first, so that the
\* last poll, which may be answered after the window, returns no later than
\* the window, one sleep and one poll after the start, and the polls number
\* at most two more than the sleeps that fit the window.
C9_ReadinessLoop ==
    \A p \in Procs :
      /\ polls[p].at <= until + infoCheckSleep + MaxPollTicks
      /\ polls[p].n <= (infoCheckMaxWait \div infoCheckSleep) + 2
      /\ (pc[p] = "infoCheckLoop" /\ polls[p].n > 0) =>
           /\ polls[p].res \in PollErrors
           /\ polls[p].at <= until
           /\ clock[p] = polls[p].at + infoCheckSleep
      /\ JustProbed(p) =>
           /\ (Last(trace[p]).err = Nil) <=> (polls[p].res \in PollResponses)
           /\ Last(trace[p]).err # Nil =>
                /\ polls[p].at > until
                /\ polls[p].res = polls[p].lastErr
                /\ Last(trace[p]).err = Wrap(Err(polls[p].lastErr, 0))
                /\ pc[p] = "returned" /\ result[p] = Last(trace[p]).err

\* infoCheck has returned the error of a poll that failed after the window,
\* an earlier poll having failed too
C9_Witness ==
    \E p \in Procs :
      /\ JustProbed(p) /\ polls[p].n >= 2
      /\ Last(trace[p]).err = Wrap(Err("i/o timeout", 0))
      /\ polls[p].at > until

\* infoCheck has returned nil on a response that came after the window
C9_LateSuccess ==
    \E p \in Procs :
      /\ JustProbed(p) /\ Last(trace[p]).err = Nil
      /\ polls[p].at > until

prodTag == <<"p", "r", "o", "d">>

\* what the steps that returned nil in the invocation have brought about
\* is in place
EffectsInPlace(p) ==
    LET name == containerNameForTag(tag[p]) IN
    /\ Ok(p, "startRedis") =>
         \E c \in Named(world.cs, redisContainerName) : c.Running
    /\ Ok(p, "startRell") => \E c \in Named(world.cs, name) : c.Running
    /\ Ok(p, "genTagNginxConf") =>
         \E c \in Named(world.cs, name) :
           FileAt(world, containerNginxConfPath(name))
             = {Content("tag", name, c.Ip, tag[p], TRUE)}
    /\ Ok(p, "switchProd") =>
         /\ FileAt(world, prodNginxConfPath)
              = {Content("prod", name, 0, <<>>, TRUE)}
         /\ FileAt(world, lastDeployTagFile)
              = {Content("text", <<>>, 0, tag[p], TRUE)}

\* DeployTag has returned the error of the step that failed, the last it ran,
\* and the effects of the steps before it are in place
FailureKeepsEffects(p) ==
    (pc[p] = "returned" /\ result[p] # Nil) =>
      /\ Len(trace[p]) > 0
      /\ Last(trace[p]).err = result[p]
      /\ \A i \in 1..(Len(trace[p]) - 1) : trace[p][i].err = Nil
      /\ EffectsInPlace(p)

\* C3: when a step of DeployTag fails, DeployTag returns the error of that
\* step, no later step runs, and what the earlier steps brought about is
\* still there: the cache and release containers run and the upstream file
\* and, after switchProd, the production files are as they were written.
C3_FailureKeepsEffects == \A p \in Procs : FailureKeepsEffects(p)

\* a step of invocation p leaves alone the production files, the release
\* containers of other tags and every file but the upstream file of its tag
NoPromotionFrame(p) ==
    /\ FileAt(world', prodNginxConfPath) = FileAt(world, prodNginxConfPath)
    /\ FileAt(world', lastDeployTagFile) = FileAt(world, lastDeployTagFile)
    /\ \A c \in world.cs :
         ( /\ HasPrefix(c.Image, rellImage \o <<":">>)
           /\ <<"/">> \o containerNameForTag(tag[p]) # c.Names[1] )
         => c \in world'.cs
    /\ \A path \in DOMAIN world.fs :
         path # containerNginxConfPath(containerNameForTag(tag[p]))
         => FileAt(world', path) = FileAt(world, path)

\* C10: no step of a DeployTag(T, false), whether it returns nil or an error,
\* changes the production config file or the last-tag file, stops or removes
\* a release container of another tag, or deletes the upstream file of
\* another tag.
C10_NoPromotionFrame ==
    [][ \A p \in Procs :
          (pc[p] \notin {"idle", "returned"} /\ ~prod[p]) => NoPromotionFrame(p)
      ]_vars

\* the failures of switchProd in writing the production config
ProdConfigFailures == {"create", "render", "close"}

\* C11: a switchProd(T) whose write of the production config fails, at the
\* create, the render or the close, returns the error and leaves the last-tag
\* file as it was; a step of switchProd changes the last-tag file only when
\* it leaves the production config written in full for T; and when
\* switchProd(T) returns nil the last-tag file holds T and nothing else.
C11_TagAfterConfig ==
    [][ \A p \in Procs :
          pc[p] = "switchProd" =>
            /\ \A f \in ProdConfigFailures :
                 LET r == switchProd(world, tag[p], f) IN
                 /\ r.err # Nil
                 /\ FileAt(r.w, lastDeployTagFile) = FileAt(world, lastDeployTagFile)
            /\ FileAt(world', lastDeployTagFile) # FileAt(world, lastDeployTagFile)
                 => FileAt(world', prodNginxConfPath)
                      = {Content("prod", containerNameForTag(tag[p]), 0, <<>>, TRUE)}
            /\ (pc'[p] # "switchProd" /\ result'[p] = Nil)
                 => FileAt(world', lastDeployTagFile)
                      = {Content("text", <<>>, 0, tag[p], TRUE)}
      ]_vars

\* switchProd has failed in rendering the production config and the last-tag
\* file still holds the tag of an earlier promotion
C11_Witness ==
    \E p \in Procs :
      /\ Failed(p, "switchProd") /\ result[p] = Wrap(Err("Execute", 0))
      /\ \E c \in FileAt(world, lastDeployTagFile) :
           c.complete /\ c.text # tag[p]

\* the backend the production config names, as a set: empty when there is no
\* production file
ProdBackend(w) == {c.backend : c \in FileAt(w, prodNginxConfPath)}

\* C12: the backend the production config names is the container of the last
\* tag whose switchProd returned nil: it changes in no step but a switchProd
\* that returns nil, and such a switchProd(T) leaves it naming the container
\* of T.
C12_BackendIsLastPromoted ==
    [][ /\ ProdBackend(world') # ProdBackend(world)
             => \E p \in Procs : pc[p] = "switchProd" /\ pc'[p] = "hupNginx"
        /\ \A p \in Procs :
             (pc[p] = "switchProd" /\ pc'[p] = "hupNginx")
               => ProdBackend(world') = {containerNameForTag(tag[p])}
      ]_vars

\* the failures in writing a config file once it is created
ConfigWriteFailures == {"render", "close"}

\* C13: when genTagNginxConf or switchProd fails at the render of its config
\* file or at the close of it, the file is not there when the error is
\* returned; and a config file that is there after a step was rendered in
\* full.
C13_NoFileAfterFailure ==
    [][ \A p \in Procs :
          /\ pc[p] = "genTagNginxConf" =>
               \A f \in ConfigWriteFailures :
                 LET r == genTagNginxConf(world, tag[p], f) IN
                 r.err.op \in {"Execute", "Close"} =>
                   FileAt(r.w, containerNginxConfPath(containerNameForTag(tag[p])))
                     = {}
          /\ pc[p] = "switchProd" =>
               \A f \in ConfigWriteFailures :
                 LET r == switchProd(world, tag[p], f) IN
                 r.err.op \in {"Execute", "Close"} =>
                   FileAt(r.w, prodNginxConfPath) = {}
          /\ \A path \in DOMAIN world'.fs :
               path # lastDeployTagFile => world'.fs[path].complete
      ]_vars

\* C14: once the production config file exists no step deletes it: a step
\* taken where the file is there leaves a file there.
C14_ProdConfigStays ==
    [][ FileAt(world, prodNginxConfPath) # {}
          => FileAt(world', prodNginxConfPath) # {} ]_vars

\* hupNginx has signalled the proxy in invocation p and nothing has run since
JustReloaded(p) ==
    /\ Ok(p, "hupNginx")
    /\ \/ pc[p] = "killExcept"
       \/ pc[p] = "returned" /\ Last(trace[p]).step = "hupNginx"

\* a release container of that name exists and runs
RunningRelease(w, name) ==
    \E c \in Named(w.cs, name) :
      c.Running /\ HasPrefix(c.Image, rellImage \o <<":">>)

\* the upstream files that name no running release container
Dangling(w) ==
    {path \in DOMAIN w.fs :
       w.fs[path].kind = "tag" /\ ~RunningRelease(w, w.fs[path].backend)}

\* C15: when hupNginx has signalled the proxy, the backend the production
\* config names is a release container that exists and runs, and so is the
\* backend of every upstream file in the config directory.
C15_ReloadSeesLiveUpstreams ==
    \A p \in Procs :
      JustReloaded(p) =>
        /\ \A c \in FileAt(world, prodNginxConfPath) :
             c.kind = "prod" => RunningRelease(world, c.backend)
        /\ Dangling(world) = {}

\* a second deploy has reloaded the proxy over an upstream file whose
\* container the first deploy removed
C15_DanglingAfterRemoval ==
    \E p \in Procs :
      /\ JustReloaded(p) /\ deploys = 2
      /\ \E path \in Dangling(world) : Named(world.cs, world.fs[path].backend) = {}

\* DeployTag(T, true) has run all its steps and returned nil
Promoted(p) ==
    /\ pc[p] = "returned" /\ prod[p] /\ result[p] = Nil
    /\ Len(trace[p]) = 7

\* C16: when DeployTag(T, true) has returned nil, the cache container and the
\* container of T run, the upstream file of T is there with the address the
\* container of T has, the production config names the container of T, the
\* last-tag file holds T, no container of the release image with another tag
\* is left, and the upstream file of no container that killExcept listed as
\* such is left.
C16_PromotedState ==
    \A p \in Procs :
      Promoted(p) =>
        LET name == containerNameForTag(tag[p]) IN
        /\ \E c \in Named(world.cs, redisContainerName) : c.Running
        /\ \E c \in Named(world.cs, name) :
             /\ c.Running
             /\ FileAt(world, containerNginxConfPath(name))
                  = {Content("tag", name, c.Ip, tag[p], TRUE)}
        /\ FileAt(world, prodNginxConfPath) = {Content("prod", name, 0, <<>>, TRUE)}
        /\ FileAt(world, lastDeployTagFile)
             = {Content("text", <<>>, 0, tag[p], TRUE)}
        /\ \A c \in world.cs :
             HasPrefix(c.Image, rellImage \o <<":">>) => tagFromNames(c.Names) = tag[p]
        /\ \A i \in Victims(p) :
             FileAt(world, containerNginxConfPath(containerNameForTag(
                              tagFromNames(kill[p].containers[i].Names)))) = {}

\* DeployTag called with the tags other than "prod" only
BeginOtherTag(p) == Begin(p) /\ tag'[p] # prodTag

NextOtherTags ==
    \/ BeginOtherTag(Caller)
    \/ \E p \in Procs : Step(p)

SpecOtherTags == Init /\ [][NextOtherTags]_vars

\* DeployTag(t, true) is called by a caller of its own while the other
\* invocation, of another tag, may be under way: nothing in Deploy keeps
\* two invocations apart.  The first caller deploys the release a, the
\* second one of the other releases.
BeginPromotion(p) ==
    /\ pc[p] = "idle"
    /\ Begin(p)
    /\ prod'[p]
    /\ (tag'[p] = <<"a">>) <=> (p = Caller)

NextConcurrent ==
    \/ \E p \in Procs : BeginPromotion(p)
    \/ \E p \in Procs : Step(p)

\* the hosts the two invocations start on: the cache runs and the release a
\* is absent, or runs and is promoted
InitConcurrent ==
    /\ Init
    /\ \E c \in Named(world.cs, redisContainerName) : c.Running
    /\ \A c \in world.cs :
         c.Running /\ c.Names[1] \in {<<"/">> \o redisContainerName,
                                     <<"/">> \o containerNameForTag(<<"a">>)}
    /\ Named(world.cs, containerNameForTag(<<"a">>)) # {}
         => FileAt(world, prodNginxConfPath) # {}

SpecConcurrent == InitConcurrent /\ [][NextConcurrent]_vars

\* the containers the production config names as its backend
PromotedBackend(w) ==
    {c.backend : c \in {x \in FileAt(w, prodNginxConfPath) : x.kind = "prod"}}

\* invocation p takes a turn of the loop of killExcept
KillTurn(p) == pc[p] = "killExceptLoop" /\ kill'[p].i = kill[p].i + 1

\* a turn of killExcept leaves the container of that name and its upstream
\* file as they are
Spared(name) ==
    /\ \A c \in Named(world.cs, name) : c \in world'.cs
    /\ FileAt(world', containerNginxConfPath(name))
         = FileAt(world, containerNginxConfPath(name))

\* C17: with two promoting invocations of different tags under
\* way, no turn of killExcept in either stops or removes the container, or
\* deletes the upstream file, of the tag the production config names.
C17_CleanupSparesPromoted ==
    [][ \A p \in Procs :
          KillTurn(p) => \A name \in PromotedBackend(world) : Spared(name)
      ]_vars

\* killExcept of one invocation has removed the container the production
\* config names, which the other invocation promoted
C17_PromotedRemoved ==
    \E p \in Procs :
      /\ pc[p] \in {"killExceptLoop", "returned"}
      /\ \E i \in 1..Len(calls[p]) :
           /\ calls[p][i].op = "os.Remove"
           /\ calls[p][i].name \in PromotedBackend(world)
           /\ calls[p][i + 2].res = "nil"
           /\ Named(world.cs, calls[p][i].name) = {}
      /\ \E c \in Named(world.cs, containerNameForTag(tag[p])) : c.Running

\* the steps of DeployTag that begin by calling docker()
DockerSteps ==
    {"startRedis", "startRell", "genTagNginxConf", "infoCheck", "killExcept"}

\* C18: the client of the Deploy value is constructed at most once, by the
\* first call of docker() from whichever invocation makes it: once the
\* construction has had its outcome no step changes it; after a failed
\* construction every step that calls docker() returns that same error and
\* does nothing else, and after a successful one no step returns a
\* construction error.
C18_ClientOnce ==
    [][ /\ world.client # "unset" => world'.client = world.client
        /\ \A p \in Procs :
             (pc[p] \in DockerSteps /\ pc'[p] # pc[p]) =>
               /\ world.client = "err" =>
                    /\ pc'[p] = "returned"
                    /\ result'[p] = Wrap(Err("NewDockerClient", 0))
                    /\ world' = world
               /\ world.client = "ok" => result'[p].op # "NewDockerClient"
               /\ world'.client # "unset"
      ]_vars

\* the construction failed in one invocation and the other invocation, which
\* called docker() later, got the same error
C18_Witness ==
    /\ world.client = "err"
    /\ \A p \in Procs :
         /\ pc[p] = "returned"
         /\ result[p] = Wrap(Err("NewDockerClient", 0))
         /\ Len(trace[p]) = 1

\* the responses of the health endpoint that report success
SuccessResponses == {"200 OK"}

\* C19: infoCheck returns nil only when its last poll was answered with a
\* successful response; a poll that got a transport error or a response with
\* an error status does not end the loop with nil.
C19_ReadyOnlyOnSuccessResponse ==
    \A p \in Procs :
      (JustProbed(p) /\ Last(trace[p]).err = Nil)
        => polls[p].res \in SuccessResponses

\* a container of another image that bears a name with the release prefix,
\* and a config file under that name
foreignName == containerNameForTag(<<"c">>)

foreignContainer ==
    [Id |-> 5, Names |-> << <<"/">> \o foreignName >>, Image |-> redisImage,
     Running |-> TRUE, Ip |-> 5]

foreignConf == Content("tag", foreignName, 5, <<"c">>, TRUE)

\* a host with that container and file added
withForeign(w) ==
    [w EXCEPT !.cs = @ \cup {foreignContainer},
              !.fs = WriteFile(@, containerNginxConfPath(foreignName), foreignConf),
              !.nextId = 6]

\* the hosts on which the cache runs, with the foreign container on them
InitForeign ==
    /\ world \in {withForeign(w) :
                     w \in {v \in InitWorlds :
                              \E c \in Named(v.cs, redisContainerName) : c.Running}}
    /\ pc = [p \in Procs |-> "idle"]
    /\ tag = [p \in Procs |-> <<>>]
    /\ prod = [p \in Procs |-> FALSE]
    /\ result = [p \in Procs |-> Nil]
    /\ trace = [p \in Procs |-> <<>>]
    /\ calls = [p \in Procs |-> <<>>]
    /\ clock = [p \in Procs |-> 0]
    /\ polls = [p \in Procs |-> NoPolls]
    /\ kill = [p \in Procs |-> NoKill]
    /\ deploys = 0

SpecForeign == InitForeign /\ [][Next]_vars

\* the listed container is of the release image family
OfReleaseImage(c) == HasPrefix(c.Image, rellImage \o <<":">>)

\* C20: a turn of killExcept for a listed container that is not of the
\* release image family, whatever its names, changes nothing: no stop, no
\* removal, no file deletion, no error collected; no turn stops or removes
\* such a container or deletes the file under its name; a turn for a listed
\* container of the release image family whose derived tag is not the
\* current one, the empty tag of a container without a prefixed name
\* included, makes the file deletion, the stop and the removal of that
\* container, which is gone iff the removal returned nil.
C20_OnlyReleaseImages ==
    [][ \A p \in Procs :
          KillTurn(p) =>
            LET c == kill[p].containers[kill[p].i] IN
            /\ ~OfReleaseImage(c) =>
                 /\ world' = world
                 /\ calls'[p] = calls[p]
                 /\ kill'[p].errs = kill[p].errs
            /\ \A x \in world.cs :
                 ~OfReleaseImage(x) =>
                   /\ x \in world'.cs
                   /\ \A i \in 1..Len(x.Names) :
                        FileAt(world', containerNginxConfPath(SliceFrom(x.Names[i], 1)))
                          = FileAt(world, containerNginxConfPath(SliceFrom(x.Names[i], 1)))
            /\ (OfReleaseImage(c) /\ tagFromNames(c.Names) # tag[p]) =>
                 /\ Len(calls'[p]) = Len(calls[p]) + 3
                 /\ calls'[p][Len(calls[p]) + 1].op = "os.Remove"
                 /\ calls'[p][Len(calls[p]) + 2].op = "StopContainer"
                 /\ Last(calls'[p]).op = "RemoveContainer"
                 /\ Last(calls'[p]).id = c.Id
                 /\ (Last(calls'[p]).res = "nil")
                      <=> ~\E x \in world'.cs : x.Id = c.Id
      ]_vars

\* killExcept has removed the release container that has no prefixed name
\* and left the foreign container and the file under its name
C20_Witness ==
    \E p \in Procs :
      /\ Ok(p, "killExcept")
      /\ \E i \in 1..Len(calls[p]) :
           /\ calls[p][i].op = "os.Remove"
           /\ calls[p][i].name = containerNameForTag(<<>>)
           /\ calls[p][i + 2].res = "nil"
      /\ Named(world.cs, strayName) = {}
      /\ foreignContainer \in world.cs
      /\ FileAt(world, containerNginxConfPath(foreignName)) = {foreignConf}

====
